---- MODULE Spec2Model ----
(***************************************************************************)
(* Depot placement and required-edge rebalancing for failure-scenario      *)
(* instance files (balanced_failure_scenarios.py,                          *)
(* updated_failure_scenarios.py).                                          *)
(*                                                                         *)
(* A text line is a sequence of tokens; the line's text is the             *)
(* concatenation of its tokens followed by a newline.  Keywords, numbers   *)
(* and the punctuation marks ":", ",", "(", ")" and " " are tokens, so     *)
(* that the prefix, suffix and split tests of the code are tests on token  *)
(* sequences.  Numbers in the files are non-negative integers; a radius    *)
(* battery_capacity / factor is kept as the fraction [num, den].           *)
(***************************************************************************)
EXTENDS Integers, Sequences, FiniteSets, TLC

\* ---------------------------------------------------------------- bounds
MaxNodes == 3
MaxCap == 4
MaxBatch == 3
\* MaxLines: lines of a file drawn from the whole LineCatalog;
\* MaxEdgeLines: lines of a file made of list markers and edge lines only
MaxLines == 5
MaxEdgeLines == 8
Weights == {1, 2}
Factors == {1, 3}

\* ------------------------------------------------- Python string helpers
NumStr == <<"0", "1", "2", "3", "4", "5", "6", "7", "8", "9", "10", "11", "12">>

IsNumTok(t) == \E i \in 1..Len(NumStr) : NumStr[i] = t

\* str(n) / f"{n}"
str(n) == NumStr[n + 1]

\* int(tok) / float(tok) on a numeric token
int(t) == (CHOOSE i \in 1..Len(NumStr) : NumStr[i] = t) - 1

RECURSIVE lstrip(_)
lstrip(s) == IF s # <<>> /\ Head(s) = " " THEN lstrip(Tail(s)) ELSE s

RECURSIVE rstrip(_)
rstrip(s) == IF s # <<>> /\ s[Len(s)] = " " THEN rstrip(SubSeq(s, 1, Len(s) - 1)) ELSE s

strip(s) == rstrip(lstrip(s))

startswith(s, p) == Len(p) <= Len(s) /\ SubSeq(s, 1, Len(p)) = p

endswith(s, t) == s # <<>> /\ s[Len(s)] = t

\* index of the first occurrence of token t in s, 0 when there is none
find(s, t) == IF \E i \in 1..Len(s) : s[i] = t
              THEN CHOOSE i \in 1..Len(s) : s[i] = t /\ \A j \in 1..(i - 1) : s[j] # t
              ELSE 0

\* s.split(t, 1)[1]: everything after the first t
after_first(s, t) == SubSeq(s, find(s, t) + 1, Len(s))

\* s.split(t)[0] and s.split(t)[1]
split0(s, t) == IF find(s, t) = 0 THEN s ELSE SubSeq(s, 1, find(s, t) - 1)
split1(s, t) == split0(after_first(s, t), t)

\* s.split(t): the list of pieces
RECURSIVE split(_, _)
split(s, t) == IF find(s, t) = 0 THEN <<s>>
               ELSE <<split0(s, t)>> \o split(after_first(s, t), t)

\* sorted(set of integers)
RECURSIVE sorted(_)
sorted(S) == IF S = {} THEN <<>>
             ELSE LET m == CHOOSE x \in S : \A y \in S : x <= y
                  IN <<m>> \o sorted(S \ {m})

\* ",".join(str(d) for d in seq)
RECURSIVE join_comma(_)
join_comma(q) == IF q = <<>> THEN <<>>
                 ELSE IF Len(q) = 1 THEN <<str(q[1])>>
                 ELSE <<str(q[1]), ",">> \o join_comma(Tail(q))

Range(q) == {q[i] : i \in 1..Len(q)}

\* ------------------------------------------------------------ nx.Graph
\* nodes: insertion-ordered; adj: edge {u, v} -> attributes
EmptyGraph == [nodes |-> <<>>, adj |-> <<>>]

add_node(G, n) == IF n \in Range(G.nodes) THEN G
                  ELSE [G EXCEPT !.nodes = Append(G.nodes, n)]

RECURSIVE add_nodes_from(_, _, _)
add_nodes_from(G, lo, hi) == IF lo > hi THEN G
                             ELSE add_nodes_from(add_node(G, lo), lo + 1, hi)

add_edge(G, u, v, weight, required) ==
    LET G1 == add_node(add_node(G, u), v)
        attr == [weight |-> weight, required |-> required]
    IN [G1 EXCEPT !.adj = [e \in DOMAIN G.adj \cup {{u, v}} |->
                              IF e = {u, v} THEN attr ELSE G.adj[e]]]

neighbors(G, v) == {u \in Range(G.nodes) : {u, v} \in DOMAIN G.adj}

\* data['travel_time'] = data.get('weight', 1.0)
travel_time(G, u, v) == G.adj[{u, v}].weight

\* ------------------------------------------------------ parse_text_file
\* int(x) / float(x): x must be one numeral, blanks around it allowed;
\* <<n>> is the value, <<>> stands for ValueError
number(x) == IF Len(strip(x)) = 1 /\ IsNumTok(strip(x)[1]) THEN <<int(strip(x)[1])>> ELSE <<>>

\* s.strip(c): c removed at the two ends only
RECURSIVE lstrip_chars(_, _)
lstrip_chars(s, c) == IF s # <<>> /\ Head(s) = c THEN lstrip_chars(Tail(s), c) ELSE s

RECURSIVE rstrip_chars(_, _)
rstrip_chars(s, c) == IF s # <<>> /\ s[Len(s)] = c
                        THEN rstrip_chars(SubSeq(s, 1, Len(s) - 1), c) ELSE s

strip_chars(s, c) == rstrip_chars(lstrip_chars(s, c), c)

\* extract_weight of balanced_failure_scenarios.py: text.split(kw)[1]
extract_weight(text) ==
    LET weight_str == IF find(text, "edge weight") # 0 THEN strip(split1(text, "edge weight"))
                      ELSE IF find(text, "cost") # 0 THEN strip(split1(text, "cost"))
                      ELSE <<"1">>
    IN IF number(weight_str) # <<>> THEN number(weight_str)[1] ELSE 1

\* extract_weight of updated_failure_scenarios.py: text.split(kw, 1)[1]
extract_weight_updated(text) ==
    LET t == strip(text) IN
    IF find(t, "edge weight") # 0
      THEN LET value == strip(after_first(t, "edge weight"))
           IN IF number(value) # <<>> THEN number(value)[1] ELSE 1
    ELSE IF find(t, "cost") # 0
      THEN LET value == strip(after_first(t, "cost"))
           IN IF number(value) # <<>> THEN number(value)[1] ELSE 1
    ELSE 1

\* the extract_weight that a module's parse_text_file calls
weight_of(text, module) ==
    IF module = "updated" THEN extract_weight_updated(text) ELSE extract_weight(text)

\* ') ' occurs in the line
has_close_paren(line) == \E i \in 1..(Len(line) - 1) : line[i] = ")" /\ line[i + 1] = " "

\* line.split(') ', 1)
close_paren(line) == CHOOSE i \in 1..(Len(line) - 1) :
                        /\ line[i] = ")" /\ line[i + 1] = " "
                        /\ \A j \in 1..(i - 1) : ~(line[j] = ")" /\ line[j + 1] = " ")

NoEdge == [raised |-> TRUE, u |-> 0, v |-> 0, weight |-> 0]

\* the edge branch; raised when an unpacking or int() raises ValueError
parse_edge(line, module) ==
    IF ~has_close_paren(line) THEN NoEdge
    ELSE LET i == close_paren(line)
             u_v == strip_chars(SubSeq(line, 1, i - 1), "(")
             parts == split(u_v, ",")
             rest == SubSeq(line, i + 2, Len(line))
         IN IF Len(parts) # 2 THEN NoEdge
            ELSE IF number(parts[1]) = <<>> \/ number(parts[2]) = <<>> THEN NoEdge
            ELSE [raised |-> FALSE, u |-> number(parts[1])[1], v |-> number(parts[2])[1],
                  weight |-> weight_of(rest, module)]

\* one pass of the for loop; st.raised: an exception has ended the loop
parse_line(st, raw, module) ==
    LET line == strip(raw) IN
    IF st.raised THEN st
    ELSE IF line = <<>> THEN st
    ELSE IF startswith(line, <<"NAME">>) THEN st
    ELSE IF startswith(line, <<"NUMBER OF VERTICES">>)
      THEN IF find(line, ":") = 0 \/ number(split1(line, ":")) = <<>>
             THEN [st EXCEPT !.raised = TRUE]
             ELSE [st EXCEPT !.G = add_nodes_from(st.G, 1, number(split1(line, ":"))[1])]
    ELSE IF startswith(line, <<"VEHICLE CAPACITY">>)
      THEN IF find(line, ":") = 0 \/ number(split1(line, ":")) = <<>>
             THEN [st EXCEPT !.raised = TRUE]
             ELSE [st EXCEPT !.battery_capacity = number(split1(line, ":"))]
    ELSE IF startswith(line, <<"LIST_REQUIRED_EDGES", ":">>)
      THEN [st EXCEPT !.current_section = "required_edges"]
    ELSE IF startswith(line, <<"LIST_NON_REQUIRED_EDGES", ":">>)
      THEN [st EXCEPT !.current_section = "non_required_edges"]
    ELSE IF startswith(line, <<"FAILURE_SCENARIO", ":">>)
      THEN [st EXCEPT !.current_section = "failure_scenario"]
    ELSE IF startswith(line, <<"DEPOT", ":">>)
      THEN LET pieces == split(strip(after_first(line, ":")), ",")
           IN IF \E k \in 1..Len(pieces) : number(pieces[k]) = <<>>
                THEN [st EXCEPT !.raised = TRUE]
                ELSE [st EXCEPT !.depots = [k \in 1..Len(pieces) |-> number(pieces[k])[1]]]
    ELSE IF st.current_section \in {"required_edges", "non_required_edges"}
      THEN LET e == parse_edge(line, module)
           IN IF e.raised THEN [st EXCEPT !.raised = TRUE]
              ELSE [st EXCEPT !.G = add_edge(st.G, e.u, e.v, e.weight,
                                             st.current_section = "required_edges")]
    ELSE st

RECURSIVE parse_lines(_, _, _, _)
parse_lines(st, lines, i, module) ==
    IF i > Len(lines) THEN st
    ELSE parse_lines(parse_line(st, lines[i], module), lines, i + 1, module)

\* parse_text_file of the given module ("balanced" or "updated") on a file's
\* lines; battery_capacity is <<>> for None; raised tells that the call ends
\* in an exception (a line that does not convert, or no VEHICLE CAPACITY)
parse_text_file(lines, module) ==
    LET st == parse_lines([G |-> EmptyGraph, depots |-> <<>>, battery_capacity |-> <<>>,
                           current_section |-> "None", raised |-> FALSE], lines, 1, module)
    IN [G |-> st.G, depots |-> st.depots, battery_capacity |-> st.battery_capacity,
        raised |-> st.raised \/ st.battery_capacity = <<>>]

\* ----------------------------------------------------- compute_coverage
\* vu_dist > cutoff, with cutoff = num / den
exceeds(d, cutoff) == d * cutoff.den > cutoff.num

\* nx.single_source_dijkstra_path_length(G, source, cutoff, weight='travel_time'):
\* dist holds the settled nodes, seen the tentative distances
RECURSIVE dijkstra(_, _, _, _)
dijkstra(G, cutoff, dist, seen) ==
    LET fringe == DOMAIN seen \ DOMAIN dist IN
    IF fringe = {} THEN dist
    ELSE LET v == CHOOSE x \in fringe : \A y \in fringe : seen[x] <= seen[y]
             d == seen[v]
             dist1 == [x \in DOMAIN dist \cup {v} |-> IF x = v THEN d ELSE dist[x]]
             better == {u \in neighbors(G, v) \ DOMAIN dist1 :
                          /\ ~exceeds(d + travel_time(G, v, u), cutoff)
                          /\ (u \notin DOMAIN seen \/ d + travel_time(G, v, u) < seen[u])}
             seen1 == [x \in DOMAIN seen \cup better |->
                          IF x \in better THEN d + travel_time(G, v, x) ELSE seen[x]]
         IN dijkstra(G, cutoff, dist1, seen1)

single_source_dijkstra_path_length(G, source, cutoff) ==
    dijkstra(G, cutoff, <<>>, [x \in {source} |-> 0])

\* mutant: the shortest-path search forgets its cutoff
compute_coverage_no_cutoff(G, radius) ==
    [node \in Range(G.nodes) |->
        DOMAIN single_source_dijkstra_path_length(G, node, [num |-> 1000, den |-> 1])]

\* mutant: the ball leaves out its centre
compute_coverage_open(G, radius) ==
    [node \in Range(G.nodes) |->
        DOMAIN single_source_dijkstra_path_length(G, node, radius) \ {node}]

compute_coverage(G, radius) ==
    [node \in Range(G.nodes) |-> DOMAIN single_source_dijkstra_path_length(G, node, radius)]

\* radius = battery_capacity / factor
radius_of(battery_capacity, factor) == [num |-> battery_capacity, den |-> factor]

\* ---------------------------------------------- greedy depot selection
\* mutant: a later node of equal gain replaces the earlier one
improves_or_ties(gain, best_gain) == gain >= best_gain

\* if gain > best_gain
improves(gain, best_gain) == gain > best_gain

\* the for loop over G.nodes() of one while iteration; best.node is <<>> for None
RECURSIVE best_scan(_, _, _, _, _, _)
best_scan(nodes, cov, sel, cvd, i, best) ==
    IF i > Len(nodes) THEN best
    ELSE LET node == nodes[i]
             gain == Cardinality(cov[node] \ cvd)
         IN IF node \in sel THEN best_scan(nodes, cov, sel, cvd, i + 1, best)
            ELSE IF improves(gain, best.gain)
              THEN best_scan(nodes, cov, sel, cvd, i + 1, [node |-> <<node>>, gain |-> gain])
            ELSE best_scan(nodes, cov, sel, cvd, i + 1, best)

best_of(nodes, cov, sel, cvd) == best_scan(nodes, cov, sel, cvd, 1, [node |-> <<>>, gain |-> -1])

\* mutant: covered is overwritten by the new ball
cover_replace(cvd, ball) == ball

\* mutant: covered is left as it was
cover_keep(cvd, ball) == cvd

\* covered |= coverage[best_node]
cover_update(cvd, ball) == cvd \cup ball

\* ------------------------------------------- rebalance_required_edges
\* step 1: one line of the section scan
scan_line(st, line) ==
    LET stripped == strip(line) IN
    IF startswith(stripped, <<"LIST_REQUIRED_EDGES", ":">>)
      THEN [st EXCEPT !.section = "required", !.header = Append(@, line)]
    ELSE IF startswith(stripped, <<"LIST_NON_REQUIRED_EDGES", ":">>)
      THEN [st EXCEPT !.section = "nonrequired"]
    ELSE IF endswith(stripped, ":") /\ st.section \in {"required", "nonrequired"}
      THEN [st EXCEPT !.section = "footer", !.footer = Append(@, line)]
    ELSE IF st.section = "None" THEN [st EXCEPT !.header = Append(@, line)]
    ELSE IF st.section = "required"
      THEN IF startswith(stripped, <<"(">>)
             THEN [st EXCEPT !.req_lines = Append(@, line)]
             ELSE [st EXCEPT !.header = Append(@, line)]
    ELSE IF st.section = "nonrequired"
      THEN IF startswith(stripped, <<"(">>)
             THEN [st EXCEPT !.nonreq_lines = Append(@, line)]
             ELSE st
    ELSE [st EXCEPT !.footer = Append(@, line)]

RECURSIVE scan_lines(_, _, _)
scan_lines(st, text_lines, i) ==
    IF i > Len(text_lines) THEN st
    ELSE scan_lines(scan_line(st, text_lines[i]), text_lines, i + 1)

split_sections(text_lines) ==
    scan_lines([header |-> <<>>, req_lines |-> <<>>, nonreq_lines |-> <<>>,
                footer |-> <<>>, section |-> "None"], text_lines, 1)

\* mutant: the target is rounded down
floor_half(total_edges) == total_edges \div 2

\* math.ceil(total_edges / 2)
ceil_half(total_edges) == (total_edges + 1) \div 2

\* mutant: the popped lines are appended to the non-required list
RECURSIVE move_back_append(_, _, _)
move_back_append(req, nonreq, k) ==
    IF k <= 0 THEN [req_lines |-> req, nonreq_lines |-> nonreq]
    ELSE move_back_append(SubSeq(req, 1, Len(req) - 1), Append(nonreq, req[Len(req)]), k - 1)

\* for _ in range(k): nonreq_lines.insert(0, req_lines.pop())
RECURSIVE move_back(_, _, _)
move_back(req, nonreq, k) ==
    IF k <= 0 THEN [req_lines |-> req, nonreq_lines |-> nonreq]
    ELSE move_back(SubSeq(req, 1, Len(req) - 1), <<req[Len(req)]>> \o nonreq, k - 1)

\* for _ in range(k): if not nonreq_lines: break; req_lines.append(nonreq_lines.pop(0))
RECURSIVE move_in(_, _, _)
move_in(req, nonreq, k) ==
    IF k <= 0 \/ nonreq = <<>> THEN [req_lines |-> req, nonreq_lines |-> nonreq]
    ELSE move_in(Append(req, Head(nonreq)), Tail(nonreq), k - 1)

\* step 2
balance(req, nonreq) ==
    LET target_req == ceil_half(Len(req) + Len(nonreq))
    IN IF Len(req) > target_req THEN move_back(req, nonreq, Len(req) - target_req)
       ELSE move_in(req, nonreq, target_req - Len(req))

\* step 3: the header is copied up to and including the first LIST_REQUIRED_EDGES:
header_part(header) ==
    LET m == IF \E i \in 1..Len(header) : startswith(strip(header[i]), <<"LIST_REQUIRED_EDGES", ":">>)
             THEN CHOOSE i \in 1..Len(header) :
                     /\ startswith(strip(header[i]), <<"LIST_REQUIRED_EDGES", ":">>)
                     /\ \A j \in 1..(i - 1) : ~startswith(strip(header[j]), <<"LIST_REQUIRED_EDGES", ":">>)
             ELSE Len(header)
    IN SubSeq(header, 1, m)

reassemble(header, req, nonreq, footer) ==
    header_part(header) \o req \o <<<<"LIST_NON_REQUIRED_EDGES", ":">>>> \o nonreq \o footer

\* len([t for t in re.split(r'[, \t]+', parts) if t])
RECURSIVE count_tokens(_, _)
count_tokens(parts, inTok) ==
    IF parts = <<>> THEN 0
    ELSE IF Head(parts) \in {",", " "} THEN count_tokens(Tail(parts), FALSE)
    ELSE (IF inTok THEN 0 ELSE 1) + count_tokens(Tail(parts), TRUE)

\* step 4: the first DEPOT: line of out
depot_count_of(out) ==
    IF \E i \in 1..Len(out) : startswith(strip(out[i]), <<"DEPOT", ":">>)
    THEN LET i == CHOOSE k \in 1..Len(out) :
                     /\ startswith(strip(out[k]), <<"DEPOT", ":">>)
                     /\ \A j \in 1..(k - 1) : ~startswith(strip(out[j]), <<"DEPOT", ":">>)
         IN count_tokens(strip(after_first(out[i], ":")), FALSE)
    ELSE 0

\* mutant: a single depot is not forced to two vehicles
vehicle_rule_plain(depot_count) == depot_count

\* vehicle_count = 2 if depot_count == 1 else depot_count
vehicle_rule(depot_count) == IF depot_count = 1 THEN 2 ELSE depot_count

\* step 5: one line of the count fix
fix_line(line, n_req, n_nonreq, vehicle_count) ==
    IF startswith(strip(line), <<"NUMBER OF REQUIRED_EDGES", ":">>)
      THEN <<"NUMBER OF REQUIRED_EDGES", ":", " ", str(n_req)>>
    ELSE IF startswith(strip(line), <<"NUMBER OF NON_REQUIRED_EDGES", ":">>)
      THEN <<"NUMBER OF NON_REQUIRED_EDGES", ":", " ", str(n_nonreq)>>
    ELSE IF startswith(strip(line), <<"NUMBER OF VEHICLES", ":">>)
      THEN <<"NUMBER OF VEHICLES", ":", " ", str(vehicle_count)>>
    ELSE line

\* the function's locals at its return; fixed, depot_count and vehicle_count
\* are what it returns
rebalance_required_edges(text_lines) ==
    LET sec == split_sections(text_lines)
        bal == balance(sec.req_lines, sec.nonreq_lines)
        out == reassemble(sec.header, bal.req_lines, bal.nonreq_lines, sec.footer)
        depot_count == depot_count_of(out)
        vehicle_count == vehicle_rule(depot_count)
    IN [fixed |-> [i \in 1..Len(out) |->
                      fix_line(out[i], Len(bal.req_lines), Len(bal.nonreq_lines), vehicle_count)],
        depot_count |-> depot_count,
        vehicle_count |-> vehicle_count,
        header |-> sec.header, footer |-> sec.footer,
        parsed_req |-> sec.req_lines, parsed_nonreq |-> sec.nonreq_lines,
        req_lines |-> bal.req_lines, nonreq_lines |-> bal.nonreq_lines,
        out |-> out]

\* ------------------------------------------------------ scenario files
\* The input files of the model: NUMBER OF VERTICES, VEHICLE CAPACITY (may be
\* missing), the two edge lists, a failure-scenario marker and the previous
\* vehicle and depot lines.  w[p] = 0 says that pair p is no edge.
PairSeq(n) == IF n < 2 THEN <<>>
              ELSE LET P == {<<u, v>> \in (1..n) \X (1..n) : u < v}
                       rank(p) == Cardinality({q \in P : q[1] < p[1] \/ (q[1] = p[1] /\ q[2] < p[2])})
                   IN [k \in 1..Cardinality(P) |-> CHOOSE p \in P : rank(p) = k - 1]

EdgeLine(u, v, w, kw) == <<"(", str(u), ",", str(v), ")", " ", kw, " ", str(w)>>

KeyLine(key, value) == <<key, ":", " ", value>>

Marker(key) == <<key, ":">>

\* layout "A": NUMBER OF VERTICES first, vehicle and depot lines in the footer,
\*             odd edges required;
\* layout "B": vehicle line after the capacity, depot line before the first edge,
\*             NUMBER OF VERTICES last, even edges required
ReqFlag(k, layout) == (k % 2 = 1) = (layout = "A")

ScenarioFile(n, cap, w, layout) ==
    LET pairs == PairSeq(n)
        present == SelectSeq(pairs, LAMBDA p : w[p] # 0)
        line(k) == IF layout = "A"
                   THEN EdgeLine(present[k][1], present[k][2], w[present[k]],
                                 IF ReqFlag(k, layout) THEN "edge weight" ELSE "cost")
                   ELSE EdgeLine(present[k][2], present[k][1], w[present[k]],
                                 IF ReqFlag(k, layout) THEN "edge weight" ELSE "cost")
        idxs == [j \in 1..Len(present) |-> j]
        reqIdx == SelectSeq(idxs, LAMBDA j : ReqFlag(j, layout))
        nonIdx == SelectSeq(idxs, LAMBDA j : ~ReqFlag(j, layout))
        req == [j \in 1..Len(reqIdx) |-> line(reqIdx[j])]
        nonreq == [j \in 1..Len(nonIdx) |-> line(nonIdx[j])]
        vertices == <<KeyLine("NUMBER OF VERTICES", str(n))>>
        capacity == IF cap = <<>> THEN <<>> ELSE <<KeyLine("VEHICLE CAPACITY", str(cap[1]))>>
        vehicles == <<KeyLine("NUMBER OF VEHICLES", "1")>>
        depot == <<KeyLine("DEPOT", "1")>>
    IN IF layout = "A"
       THEN <<KeyLine("NAME", "gdb")>> \o vertices \o capacity
            \o <<Marker("LIST_REQUIRED_EDGES")>> \o req
            \o <<Marker("LIST_NON_REQUIRED_EDGES")>> \o nonreq
            \o <<Marker("FAILURE_SCENARIO")>> \o vehicles \o depot
       ELSE <<KeyLine("NAME", "gdb")>> \o capacity \o vehicles
            \o <<Marker("LIST_REQUIRED_EDGES")>> \o depot \o req
            \o <<Marker("LIST_NON_REQUIRED_EDGES")>> \o nonreq
            \o <<Marker("FAILURE_SCENARIO")>> \o <<<<>>>> \o vertices

CapChoices == {<<>>} \cup {<<c>> : c \in 0..MaxCap}

WeightChoices(n) == [Range(PairSeq(n)) -> {0} \cup Weights]

ScenarioFiles ==
    UNION {{ScenarioFile(n, cap, w, layout) :
                cap \in CapChoices, w \in WeightChoices(n), layout \in {"A", "B"}} :
           n \in 1..MaxNodes}

\* files with lines that the two modules read differently or cannot convert:
\* an edge line with two weight annotations, a DEPOT: line with blank-separated
\* ids, an edge line with three endpoints
OddFiles ==
    LET head == <<KeyLine("NUMBER OF VERTICES", "2"), KeyLine("VEHICLE CAPACITY", "2"),
                  Marker("LIST_REQUIRED_EDGES")>>
    IN {head \o <<EdgeLine(1, 2, 2, "cost") \o <<" ", "cost", " ", "1">>>>,
        head \o <<EdgeLine(1, 2, 1, "cost"), <<"DEPOT", ":", " ", "1", " ", "2">>>>,
        head \o <<<<"(", "1", ",", "2", ",", "3", ")", " ", "cost", " ", "1">>>>}

\* -------------------------------------------------------- batch drivers
VARIABLES caller, factor, files, idx, pc, G, battery_capacity, coverage,
          selected, covered, outputs, text_lines, result

vars == <<caller, factor, files, idx, pc, G, battery_capacity, coverage,
          selected, covered, outputs, text_lines, result>>

\* the variables of the rebalancing path
rvars == <<text_lines, result>>

\* the variables of the depot-selection path
dvars == <<caller, factor, files, idx, pc, G, battery_capacity, coverage,
           selected, covered, outputs>>

\* radius = battery_capacity / 2.0 in select_depots
HalfFactor == 2
\* factor=2 passed by update_gdb_with_third_radius
ThirdRadiusFactor == 2

all_nodes == Range(G.nodes)

best == best_of(G.nodes, coverage, selected, covered)

\* not l.strip().startswith('DEPOT:') and not l.strip().startswith('NUMBER OF VEHICLES')
keep_updated(l) == /\ ~startswith(strip(l), <<"DEPOT", ":">>)
                   /\ ~startswith(strip(l), <<"NUMBER OF VEHICLES">>)

\* not l.startswith("DEPOT:") and not l.startswith("NUMBER OF VEHICLES:")
keep_third(l) == /\ ~startswith(l, <<"DEPOT", ":">>)
                 /\ ~startswith(l, <<"NUMBER OF VEHICLES", ":">>)

\* mutant: a single depot is forced to two vehicles
vehicle_count_forced(new_depots) ==
    IF Cardinality(new_depots) = 1 THEN 2 ELSE Cardinality(new_depots)

\* num_vehicles = len(new_depots)
vehicle_count_of(new_depots) == Cardinality(new_depots)

vehicle_line_of(num_vehicles) == <<"NUMBER OF VEHICLES", ":", " ", str(num_vehicles)>>

depot_line_of(new_depots) == <<"DEPOT", ":", " ">> \o join_comma(sorted(new_depots))

\* index of the first line that starts with VEHICLE CAPACITY, 0 without one
first_capacity_line(q) ==
    LET S == {i \in 1..Len(q) : startswith(q[i], <<"VEHICLE CAPACITY">>)}
    IN IF S = {} THEN 0 ELSE CHOOSE i \in S : \A j \in S : i <= j

\* index of the first line whose stripped text starts with "(", 0 without one
first_edge_line(q) ==
    LET S == {i \in 1..Len(q) : startswith(strip(q[i]), <<"(">>)}
    IN IF S = {} THEN 0 ELSE CHOOSE i \in S : \A j \in S : i <= j

\* list.insert(i, x) with i counted from 0
insert(q, i, x) == SubSeq(q, 1, i) \o <<x>> \o SubSeq(q, i + 1, Len(q))

\* body of update_all_instances after select_depots returned
write_updated(lines, new_depots) ==
    LET num_vehicles == vehicle_count_of(new_depots)
        filtered == SelectSeq(lines, keep_updated)
    IN [num_vehicles |-> num_vehicles,
        lines |-> filtered \o <<vehicle_line_of(num_vehicles), depot_line_of(new_depots)>>]

\* body of update_gdb_with_third_radius after select_depots_with_factor returned
write_third(lines, new_depots) ==
    LET n_veh == vehicle_count_of(new_depots)
        filtered == SelectSeq(lines, keep_third)
        vc == first_capacity_line(filtered)
        f1 == IF vc = 0 THEN filtered ELSE insert(filtered, vc, vehicle_line_of(n_veh))
        ed == first_edge_line(f1)
        f2 == IF ed = 0 THEN f1 ELSE insert(f1, ed - 1, depot_line_of(new_depots))
    IN [num_vehicles |-> n_veh, lines |-> f2]

\* the module whose parse_text_file a caller runs
module_of(c) == IF c = "update_all_instances" THEN "updated" ELSE "balanced"

NoFile == [exists |-> FALSE, lines |-> <<>>]

Callers == {<<"update_all_instances", HalfFactor>>,
            <<"update_gdb_with_third_radius", ThirdRadiusFactor>>}
           \cup {<<"select_depots_with_factor", f>> : f \in Factors}

InitCommon ==
    /\ idx = 1 /\ pc = "file"
    /\ G = EmptyGraph /\ battery_capacity = <<>> /\ coverage = <<>>
    /\ selected = {} /\ covered = {} /\ outputs = <<>>
    /\ text_lines = <<>> /\ result = <<>>

Init ==
    /\ \E c \in Callers : caller = c[1] /\ factor = c[2]
    /\ \/ \E f \in ScenarioFiles \cup OddFiles : files = <<[exists |-> TRUE, lines |-> f]>>
       \/ caller = "update_all_instances" /\ files = <<NoFile>>
    /\ InitCommon

\* if not os.path.exists(infile): continue
SkipMissing ==
    /\ pc = "file" /\ idx <= Len(files) /\ ~files[idx].exists
    /\ idx' = idx + 1
    /\ UNCHANGED <<caller, factor, files, pc, G, battery_capacity, coverage,
                   selected, covered, outputs, rvars>>

\* parse_text_file raises ValueError: nothing catches it
ParseRaises ==
    /\ pc = "file" /\ idx <= Len(files) /\ files[idx].exists
    /\ parse_text_file(files[idx].lines, module_of(caller)).raised
    /\ pc' = "raised"
    /\ UNCHANGED <<caller, factor, files, idx, G, battery_capacity, coverage,
                   selected, covered, outputs, rvars>>

\* parse_text_file returns; select_depots up to the while loop
ParseAndCover ==
    /\ pc = "file" /\ idx <= Len(files) /\ files[idx].exists
    /\ LET p == parse_text_file(files[idx].lines, module_of(caller)) IN
         /\ ~p.raised
         /\ G' = p.G
         /\ battery_capacity' = p.battery_capacity
         /\ coverage' = compute_coverage(p.G, radius_of(p.battery_capacity[1], factor))
    /\ selected' = {} /\ covered' = {}
    /\ pc' = "loop"
    /\ UNCHANGED <<caller, factor, files, idx, outputs, rvars>>

\* one iteration of the while loop
GreedyPick ==
    /\ pc = "loop" /\ covered # all_nodes /\ best.node # <<>>
    /\ selected' = selected \cup {best.node[1]}
    /\ covered' = cover_update(covered, coverage[best.node[1]])
    /\ UNCHANGED <<caller, factor, files, idx, pc, G, battery_capacity, coverage, outputs, rvars>>

\* the loop ends (condition false, or break): return selected
GreedyReturn ==
    /\ pc = "loop" /\ (covered = all_nodes \/ best.node = <<>>)
    /\ pc' = "returned"
    /\ UNCHANGED <<caller, factor, files, idx, G, battery_capacity, coverage,
                   selected, covered, outputs, rvars>>

\* the caller writes the output file and goes to the next file
WriteOutput ==
    /\ pc = "returned"
    /\ outputs' = IF caller = "update_all_instances"
                    THEN Append(outputs, [file |-> idx] @@ write_updated(files[idx].lines, selected))
                  ELSE IF caller = "update_gdb_with_third_radius"
                    THEN Append(outputs, [file |-> idx] @@ write_third(files[idx].lines, selected))
                  ELSE outputs
    /\ idx' = idx + 1
    /\ pc' = "file"
    /\ UNCHANGED <<caller, factor, files, G, battery_capacity, coverage, selected, covered, rvars>>

Finish ==
    /\ pc = "file" /\ idx > Len(files)
    /\ pc' = "done"
    /\ UNCHANGED <<caller, factor, files, idx, G, battery_capacity, coverage,
                   selected, covered, outputs, rvars>>

Next == SkipMissing \/ ParseRaises \/ ParseAndCover \/ GreedyPick \/ GreedyReturn
        \/ WriteOutput \/ Finish

Spec == Init /\ [][Next]_vars

\* a while loop that was entered keeps executing: its next iteration or its
\* return is eventually taken
SpecLive == Spec /\ WF_vars(GreedyPick) /\ WF_vars(GreedyReturn)

\* ------------------------------------------------- the rebalancing path
\* The lines a scenario file is made of here: stale count lines, the section
\* markers, depot lines and two edge lines.
EdgeA == EdgeLine(1, 2, 3, "edge weight")
EdgeB == EdgeLine(3, 4, 4, "cost")

LineCatalog ==
    {KeyLine("NUMBER OF REQUIRED_EDGES", "9"), KeyLine("NUMBER OF NON_REQUIRED_EDGES", "9"),
     KeyLine("NUMBER OF VEHICLES", "9"),
     Marker("LIST_REQUIRED_EDGES"), Marker("LIST_NON_REQUIRED_EDGES"), Marker("FAILURE_SCENARIO"),
     KeyLine("DEPOT", "1"), <<"DEPOT", ":", " ", "1", ",", " ", "2">>,
     EdgeA, EdgeB}

InitRebalance ==
    /\ caller = "process_all" /\ factor = 0 /\ files = <<>> /\ InitCommon

\* the file read by process_all grows by one line
ReadLine ==
    /\ result = <<>> /\ Len(text_lines) < MaxLines
    /\ \E l \in LineCatalog : text_lines' = Append(text_lines, l)
    /\ UNCHANGED <<dvars, result>>

\* new_lines, depot_count, vehicle_count = rebalance_required_edges(lines)
Rebalance ==
    /\ result = <<>>
    /\ result' = rebalance_required_edges(text_lines)
    /\ UNCHANGED <<dvars, text_lines>>

NextRebalance == ReadLine \/ Rebalance

SpecRebalance == InitRebalance /\ [][NextRebalance]_vars

\* Longer files, made of the two list markers and edge lines only: long
\* enough for a required list that exceeds the target by two lines while the
\* non-required list is not empty.
SectionCatalog ==
    {Marker("LIST_REQUIRED_EDGES"), Marker("LIST_NON_REQUIRED_EDGES"), EdgeA, EdgeB}

\* the file read by process_all grows by a marker or an edge line
ReadSectionLine ==
    /\ result = <<>> /\ Len(text_lines) < MaxEdgeLines
    /\ \E l \in SectionCatalog : text_lines' = Append(text_lines, l)
    /\ UNCHANGED <<dvars, result>>

NextSections == ReadSectionLine \/ Rebalance

SpecSections == InitRebalance /\ [][NextSections]_vars

\* ------------------------------------------------------------ batches
\* A batch run over a few files: two well-formed ones, one without its
\* VEHICLE CAPACITY line, and (for update_all_instances) one that is missing.
BatchFiles ==
    {[exists |-> TRUE, lines |-> ScenarioFile(2, <<2>>, [p \in Range(PairSeq(2)) |-> 1], "A")],
     [exists |-> TRUE, lines |-> ScenarioFile(3, <<0>>, [p \in Range(PairSeq(3)) |-> 0], "B")],
     [exists |-> TRUE, lines |-> ScenarioFile(2, <<>>, [p \in Range(PairSeq(2)) |-> 1], "A")],
     NoFile}

SeqsUpTo(S, n) == UNION {[1..k -> S] : k \in 1..n}

InitBatch ==
    /\ \E c \in {<<"update_all_instances", HalfFactor>>,
                 <<"update_gdb_with_third_radius", ThirdRadiusFactor>>} :
          caller = c[1] /\ factor = c[2]
    /\ files \in SeqsUpTo(BatchFiles, MaxBatch)
    /\ caller = "update_gdb_with_third_radius" => \A i \in 1..Len(files) : files[i].exists
    /\ InitCommon

SpecBatch == InitBatch /\ [][Next]_vars

\* =============================================================== claims
\* a walk from u to v whose total weight times den is at most budget
RECURSIVE WalkWithin(_, _, _, _, _, _)
WalkWithin(g, u, v, budget, den, hops) ==
    \/ u = v
    \/ /\ hops > 0
       /\ \E x \in neighbors(g, u) :
             /\ travel_time(g, u, x) * den <= budget
             /\ WalkWithin(g, x, v, budget - travel_time(g, u, x) * den, den, hops - 1)

\* C1: when the greedy selection returns, every node of the graph is within
\* shortest-path distance battery_capacity / factor of a selected depot, and
\* the coverage sets of the selected depots together are the whole node set.
C1_AllNodesCovered ==
    pc = "returned" =>
        /\ \A n \in all_nodes : \E d \in selected :
              WalkWithin(G, d, n, battery_capacity[1], factor, Len(G.nodes))
        /\ UNION {coverage[d] : d \in selected} = all_nodes

\* a disconnected three-node graph, covered by more than one depot, one of
\* which covers a node other than itself
C1_Witness ==
    /\ pc = "returned" /\ Len(G.nodes) = 3 /\ Cardinality(selected) = 2
    /\ \E d \in selected : coverage[d] # {d}
    /\ \E n \in all_nodes : neighbors(G, n) = {}

\* the numbers that the NUMBER OF VEHICLES lines of a file state
VehicleNumbers(lines) ==
    {int(strip(after_first(lines[i], ":"))[1]) :
        i \in {j \in 1..Len(lines) : startswith(strip(lines[j]), <<"NUMBER OF VEHICLES">>)}}

\* the output of the file whose selection is still held in `selected`
LastOutput == outputs[Len(outputs)]
JustWritten == pc = "file" /\ outputs # <<>> /\ LastOutput.file = idx - 1

\* C3 as stated: one selected depot gives a vehicle count of 2, otherwise the
\* count is the number of depots.
C3_SingleDepotForcedToTwo ==
    JustWritten =>
        LET expected == IF Cardinality(selected) = 1 THEN 2 ELSE Cardinality(selected)
        IN LastOutput.num_vehicles = expected /\ VehicleNumbers(LastOutput.lines) = {expected}

\* C3 amended: in the depot-selection path the vehicle count computed and
\* written is the number of selected depots, also when that number is one.
C3_VehiclesEqualDepots ==
    JustWritten =>
        /\ LastOutput.num_vehicles = Cardinality(selected)
        /\ VehicleNumbers(LastOutput.lines) = {Cardinality(selected)}

\* a file written with exactly one depot and a vehicle count of one
C3_Witness ==
    /\ JustWritten /\ Cardinality(selected) = 1
    /\ LastOutput.num_vehicles = 1 /\ VehicleNumbers(LastOutput.lines) = {1}

\* C5: an iteration of the greedy loop adds one node that was not selected
\* before, and the covered set after it contains the covered set before it.
C5_SelectionGrows ==
    [][(pc = "loop" /\ pc' = "loop") =>
          /\ \E n \in all_nodes \ selected : selected' = selected \cup {n}
          /\ covered \subseteq covered']_vars

\* the loop has run twice and the second depot added to what was covered
C5_Witness ==
    /\ pc = "loop" /\ Cardinality(selected) = 2
    /\ \E d \in selected : coverage[d] # covered /\ coverage[d] # {d}

\* C6: the coverage map has an entry for every node of the graph, and every
\* node's coverage set contains the node.
C6_CoverageContainsSelf ==
    pc \in {"loop", "returned"} =>
        /\ DOMAIN coverage = all_nodes
        /\ \A n \in all_nodes : n \in coverage[n]

\* radius 0 on a graph with edges: every node covers exactly itself
C6_Witness ==
    /\ pc = "loop" /\ battery_capacity = <<0>> /\ DOMAIN G.adj # {}
    /\ Len(G.nodes) = 3 /\ \A n \in all_nodes : coverage[n] = {n}

\* C7 as stated: a file without VEHICLE CAPACITY stops that file only; when
\* the run is over every later readable file has been written.
C7_BatchNotAborted ==
    pc \in {"done", "raised"} =>
        \A i \in 1..Len(files) :
            (files[i].exists /\ ~parse_text_file(files[i].lines, module_of(caller)).raised)
                => \E k \in 1..Len(outputs) : outputs[k].file = i

\* position of a node in the graph's node iteration order
Pos(n) == CHOOSE i \in 1..Len(G.nodes) : G.nodes[i] = n

Gain(n) == Cardinality(coverage[n] \ covered)

\* C8: the node an iteration adds is the first one, in node iteration order,
\* among the unselected nodes of maximal marginal gain.
C8_FirstMaximalGain ==
    [][(pc = "loop" /\ pc' = "loop") =>
          \E n \in all_nodes \ selected :
             /\ selected' = selected \cup {n}
             /\ \A m \in all_nodes \ selected :
                   Gain(m) < Gain(n) \/ (Gain(m) = Gain(n) /\ Pos(n) <= Pos(m))]_vars

\* the first iteration chose between two nodes of equal gain and took the one
\* that comes first in iteration order although its id is the larger one
C8_Witness ==
    /\ pc = "loop" /\ Cardinality(selected) = 1
    /\ \E n \in selected : \E m \in all_nodes \ selected :
          /\ covered = coverage[n]
          /\ Cardinality(coverage[m]) = Cardinality(coverage[n])
          /\ Pos(n) < Pos(m) /\ m < n

\* ------------------------------------------ claims on the rebalancer
Rebalanced == result # <<>>

\* ceil(n / 2), stated without the division of the code
IsCeilHalf(t, n) == 2 * t = n \/ 2 * t = n + 1

IsEdgeLine(l) == startswith(strip(l), <<"(">>)

\* C2: after rebalancing the required list holds ceil(total / 2) lines, or
\* the non-required list ran out first (then required is at most that and
\* non-required is empty); the total number of edge lines is unchanged.
C2_RequiredIsHalf ==
    Rebalanced =>
        LET total == Len(result.parsed_req) + Len(result.parsed_nonreq)
        IN /\ \/ IsCeilHalf(Len(result.req_lines), total)
              \/ /\ result.nonreq_lines = <<>>
                 /\ 2 * Len(result.req_lines) <= total + 1
           /\ Len(result.req_lines) + Len(result.nonreq_lines) = total

\* three non-required edge lines and no required one: two are moved
C2_Witness ==
    /\ Rebalanced /\ result.parsed_req = <<>> /\ Len(result.parsed_nonreq) = 3
    /\ Len(result.req_lines) = 2 /\ Len(result.nonreq_lines) = 1

\* the first DEPOT: line of a file, <<>> when there is none
FirstDepotLine(lines) ==
    LET D == {i \in 1..Len(lines) : startswith(strip(lines[i]), <<"DEPOT", ":">>)}
    IN IF D = {} THEN <<>> ELSE lines[CHOOSE i \in D : \A j \in D : i <= j]

\* the node ids on a line
NodeIds(line) == {i \in 1..Len(line) : IsNumTok(line[i])}

\* C4: depot_count is the number of node ids on the first DEPOT: line of the
\* output (0 without one); vehicle_count is 2 for one depot, else depot_count.
C4_DepotAndVehicleCount ==
    Rebalanced =>
        /\ result.depot_count = Cardinality(NodeIds(FirstDepotLine(result.fixed)))
        /\ result.vehicle_count = IF result.depot_count = 1 THEN 2 ELSE result.depot_count

\* a file whose footer names one depot: two vehicles
C4_Witness ==
    /\ Rebalanced /\ result.depot_count = 1 /\ result.vehicle_count = 2
    /\ \E i \in 1..Len(result.footer) : startswith(strip(result.footer[i]), <<"DEPOT", ":">>)

\* C9: with target = ceil(total / 2), a longer required list keeps its first
\* target lines and its excess goes, in order, in front of the non-required
\* lines; a shorter one takes the first non-required lines in order; the
\* concatenation of the two lists is unchanged.
C9_MovesKeepOrder ==
    Rebalanced =>
        LET p == result.parsed_req
            q == result.parsed_nonreq
            t == CHOOSE k \in 0..(Len(p) + Len(q)) : IsCeilHalf(k, Len(p) + Len(q))
        IN /\ Len(p) > t =>
                /\ result.req_lines = SubSeq(p, 1, t)
                /\ result.nonreq_lines = SubSeq(p, t + 1, Len(p)) \o q
           /\ Len(p) < t =>
                /\ result.req_lines = p \o SubSeq(q, 1, t - Len(p))
                /\ result.nonreq_lines = SubSeq(q, t - Len(p) + 1, Len(q))
           /\ result.req_lines \o result.nonreq_lines = p \o q

\* five required lines and a non-required one: the two excess lines, which
\* differ, stand in their order in front of the line that was non-required
C9_Witness ==
    /\ Rebalanced /\ Len(result.parsed_req) = 5 /\ Len(result.parsed_nonreq) = 1
    /\ result.parsed_req[4] # result.parsed_req[5]
    /\ result.parsed_req[5] # result.parsed_nonreq[1]
    /\ result.req_lines = SubSeq(result.parsed_req, 1, 3)
    /\ result.nonreq_lines = <<result.parsed_req[4], result.parsed_req[5], result.parsed_nonreq[1]>>

\* the index of the LIST_NON_REQUIRED_EDGES: line of the output
NonReqMarkerAt(lines) ==
    CHOOSE i \in 1..Len(lines) :
        /\ startswith(strip(lines[i]), <<"LIST_NON_REQUIRED_EDGES", ":">>)
        /\ \A j \in 1..(i - 1) : ~startswith(strip(lines[j]), <<"LIST_NON_REQUIRED_EDGES", ":">>)

\* the index of the first LIST_REQUIRED_EDGES: line of the output, 0 without one
ReqMarkerAt(lines) ==
    LET M == {i \in 1..Len(lines) : startswith(strip(lines[i]), <<"LIST_REQUIRED_EDGES", ":">>)}
    IN IF M = {} THEN 0 ELSE CHOOSE i \in M : \A j \in M : i <= j

\* the number of edge lines that follow line `at` without a break
RECURSIVE EdgeRun(_, _)
EdgeRun(lines, at) ==
    IF at < Len(lines) /\ IsEdgeLine(lines[at + 1]) THEN 1 + EdgeRun(lines, at + 1) ELSE 0

\* the edge lines of the output's required block, read from the output: the
\* edge lines under its LIST_REQUIRED_EDGES: line; an output without that
\* line has no required block
OutRequiredBlock(lines) ==
    IF ReqMarkerAt(lines) = 0 THEN <<>>
    ELSE SubSeq(lines, ReqMarkerAt(lines) + 1, ReqMarkerAt(lines) + EdgeRun(lines, ReqMarkerAt(lines)))

\* the edge lines of the output's non-required block, read from the output:
\* the edge lines under its LIST_NON_REQUIRED_EDGES: line
OutNonRequiredBlock(lines) ==
    SubSeq(lines, NonReqMarkerAt(lines) + 1,
           NonReqMarkerAt(lines) + EdgeRun(lines, NonReqMarkerAt(lines)))

\* the number a count line states
Stated(line) == int(strip(after_first(line, ":"))[1])

\* C10 as stated: in the output every NUMBER OF REQUIRED_EDGES: line states the
\* number of edge lines in the output's required block, every NUMBER OF
\* NON_REQUIRED_EDGES: line the number of edge lines in the output's
\* non-required block, every NUMBER OF VEHICLES: line the returned vehicle
\* count, wherever the line stands.
C10_CountLinesMatch ==
    Rebalanced =>
        \A i \in 1..Len(result.fixed) :
            LET l == result.fixed[i] IN
            /\ startswith(strip(l), <<"NUMBER OF REQUIRED_EDGES", ":">>)
                  => Stated(l) = Len(OutRequiredBlock(result.fixed))
            /\ startswith(strip(l), <<"NUMBER OF NON_REQUIRED_EDGES", ":">>)
                  => Stated(l) = Len(OutNonRequiredBlock(result.fixed))
            /\ startswith(strip(l), <<"NUMBER OF VEHICLES", ":">>)
                  => Stated(l) = result.vehicle_count

IsCountLine(l) ==
    \/ startswith(strip(l), <<"NUMBER OF REQUIRED_EDGES", ":">>)
    \/ startswith(strip(l), <<"NUMBER OF NON_REQUIRED_EDGES", ":">>)
    \/ startswith(strip(l), <<"NUMBER OF VEHICLES", ":">>)

IsNonReqMarker(l) == startswith(strip(l), <<"LIST_NON_REQUIRED_EDGES", ":">>)

\* the lines of a file that the rebalancer is said to leave alone
Preserved(lines) == SelectSeq(lines, LAMBDA l : ~IsCountLine(l) /\ ~IsNonReqMarker(l))

\* C11 as stated: the output is the header up to the LIST_REQUIRED_EDGES: line,
\* the required lines, one LIST_NON_REQUIRED_EDGES: line, the non-required
\* lines and the footer; and every input line that is neither a count line nor
\* the non-required marker stands unchanged in the output, in its original
\* relative order, the non-edge lines between the LIST_REQUIRED_EDGES: line
\* and the footer included.
C11_FormatPreserving ==
    Rebalanced =>
        /\ Len(SelectSeq(result.fixed, IsNonReqMarker)) = 1
        /\ Preserved(result.fixed) = Preserved(text_lines)

\* C12 as stated: for a file written by update_gdb_with_third_radius every
\* node of the graph is within shortest-path distance battery_capacity / 3 of
\* one of the depots selected for it, and the number of vehicles the file
\* states is the number of those depots.
C12_ThirdRadiusCover ==
    (JustWritten /\ caller = "update_gdb_with_third_radius") =>
        /\ \A n \in all_nodes : \E d \in selected :
              WalkWithin(G, d, n, battery_capacity[1], 3, Len(G.nodes))
        /\ VehicleNumbers(LastOutput.lines) = {Cardinality(selected)}

\* C13: the greedy loop terminates. While a node is uncovered the scan picks
\* a node and its marginal gain is at least 1; an iteration makes covered
\* strictly larger and selects one more node; never more nodes are selected
\* than the graph has, so there are at most that many iterations; the loop is
\* left only with every node covered (the exit for 'no candidate left' is not
\* taken while a node is uncovered); and a loop that was entered returns.
C13_GreedyTerminates ==
    /\ []((pc = "loop" /\ covered # all_nodes) => (best.node # <<>> /\ best.gain >= 1))
    /\ [](pc \in {"loop", "returned"} => Cardinality(selected) <= Len(G.nodes))
    /\ [][(pc = "loop" /\ pc' = "loop") =>
             /\ covered \subseteq covered' /\ covered' # covered
             /\ Cardinality(selected') = Cardinality(selected) + 1]_vars
    /\ [][(pc = "loop" /\ pc' = "returned") => covered = all_nodes]_vars
    /\ (pc = "loop" ~> pc = "returned")

\* radius 0 on three nodes: the loop has returned after as many iterations
\* as the graph has nodes
C13_Witness ==
    /\ pc = "returned" /\ Len(G.nodes) = 3 /\ Cardinality(selected) = 3
    /\ covered = all_nodes

\* rebalance_required_edges applied to the line list it returned
Reapplied == rebalance_required_edges(result.fixed)

\* C14 as stated: applying rebalance_required_edges to its own output returns
\* the same line list, the same depot count and the same vehicle count, and
\* the second application moves no edge line between the required and the
\* non-required list.
C14_Idempotent ==
    Rebalanced =>
        /\ Reapplied.fixed = result.fixed
        /\ Reapplied.depot_count = result.depot_count
        /\ Reapplied.vehicle_count = result.vehicle_count
        /\ Reapplied.req_lines = Reapplied.parsed_req
        /\ Reapplied.nonreq_lines = Reapplied.parsed_nonreq

====
